---- MODULE Spec2Model ----
(***************************************************************************)
(* MariaDB connection management (src/src/connection.ts): the module-level *)
(* pool and connection references, createConnectionPool, executeQuery,     *)
(* endConnection, getConfigFromEnv and the result normalisation            *)
(* (convertScalar, normalizeRow).                                          *)
(*                                                                         *)
(* executeQuery is an async function: each action below is one synchronous *)
(* segment of it, from one await (or the call) to the next await (or the   *)
(* settling of the returned promise).                                      *)
(***************************************************************************)
EXTENDS Integers, Sequences, FiniteSets, TLC

VARIABLES env, pool, connection, poolsCreated, closed, endCalls, leased,
          pc, loc, hist, ret, lastOp, lastStartFree, normArg, normRet

vars == <<env, pool, connection, poolsCreated, closed, endCalls, leased,
          pc, loc, hist, ret, lastOp, lastStartFree, normArg, normRet>>

\* the argument and the value of a direct call of normalizeRow
normVars == <<normArg, normRet>>

(***************************************************************************)
(* Bounds of the model                                                     *)
(***************************************************************************)
\* number of executeQuery invocation slots the caller uses
NumInv == 2
\* most pools mariadb.createPool hands out in one run
MaxPools == 2
\* most pool.end() calls counted on one pool
MaxEnds == 2

Inv == 1 .. NumInv

(***************************************************************************)
(* Program constants                                                       *)
(***************************************************************************)
DEFAULT_ROW_LIMIT == 1000
connectionLimit == 2

\* null / undefined for the pool and connection references (ids start at 1)
NULL == 0

(***************************************************************************)
(* Values.  JavaScript values are tagged records.  Integers, both bigint   *)
(* and number, are sign + magnitude in three limbs of 21 bits, so that the *)
(* whole unsigned 64-bit range and Number.MAX_SAFE_INTEGER = 2^53 - 1      *)
(* are represented exactly.                                                *)
(***************************************************************************)
LimbBase == 2097152

Int3(tag, neg, l2, l1, l0) == [t |-> tag, neg |-> neg, l2 |-> l2, l1 |-> l1, l0 |-> l0]
BigInt(neg, l2, l1, l0) == Int3("bigint", neg, l2, l1, l0)
Num(neg, l2, l1, l0) == Int3("number", neg, l2, l1, l0)
SmallNum(n) == Num(FALSE, 0, 0, n)
Str(s) == [t |-> "string", s |-> s]
Null == [t |-> "null"]
Obj(f) == [t |-> "object", f |-> f]
Arr(a) == [t |-> "array", a |-> a]
\* an array carrying the driver's non-enumerable `meta` property
ArrMeta(a, m) == [t |-> "array", a |-> a, meta |-> m]

\* const MAX_SAFE = BigInt(Number.MAX_SAFE_INTEGER)  =  2^53 - 1
MAX_SAFE == BigInt(FALSE, 2047, LimbBase - 1, LimbBase - 1)

BigNeg(v) == [v EXCEPT !.neg = IF v.l2 = 0 /\ v.l1 = 0 /\ v.l0 = 0 THEN FALSE ELSE ~v.neg]

MagGT(a, b) ==
    \/ a.l2 > b.l2
    \/ a.l2 = b.l2 /\ a.l1 > b.l1
    \/ a.l2 = b.l2 /\ a.l1 = b.l1 /\ a.l0 > b.l0

\* a > b on bigints
BigGT(a, b) ==
    IF a.neg # b.neg THEN b.neg
    ELSE IF a.neg THEN MagGT(b, a) ELSE MagGT(a, b)

\* a < b on bigints
BigLT(a, b) == BigGT(b, a)

RECURSIVE BitLen(_)
BitLen(n) == IF n = 0 THEN 0 ELSE 1 + BitLen(n \div 2)

RECURSIVE Pow2(_)
Pow2(n) == IF n = 0 THEN 1 ELSE 2 * Pow2(n - 1)

\* Number(v) for a bigint v: the nearest IEEE-754 double (53 significant
\* bits, ties to even).  Magnitudes below 2^53 are exact.
ToNumber(v) ==
    LET len == IF v.l2 > 0 THEN 42 + BitLen(v.l2)
               ELSE IF v.l1 > 0 THEN 21 + BitLen(v.l1) ELSE BitLen(v.l0)
    IN  IF len <= 53 THEN Num(v.neg, v.l2, v.l1, v.l0)
        ELSE
          LET s    == len - 53
              unit == Pow2(s)
              rem  == v.l0 % unit
              base == v.l0 - rem
              odd  == (base \div unit) % 2 = 1
              up   == rem * 2 > unit \/ (rem * 2 = unit /\ odd)
              r0   == IF up THEN base + unit ELSE base
              c0   == IF r0 >= LimbBase THEN 1 ELSE 0
              r1   == v.l1 + c0
              c1   == IF r1 >= LimbBase THEN 1 ELSE 0
          IN  Num(v.neg, v.l2 + c1, r1 - c1 * LimbBase, r0 - c0 * LimbBase)

\* a thrown exception travelling through an expression
Throw(msg, v) == [t |-> "throw", msg |-> msg, v |-> v]

\* the comparison written with >= and <=
OutOfSafeRangeOffByOne(v) == ~BigLT(v, MAX_SAFE) \/ ~BigGT(v, BigNeg(MAX_SAFE))

\* line 23: v > MAX_SAFE || v < -MAX_SAFE
OutOfSafeRange(v) == BigGT(v, MAX_SAFE) \/ BigLT(v, BigNeg(MAX_SAFE))

\* function convertScalar(v); check is process.env.MARIADB_CHECK_NUMBER_RANGE === "true"
convertScalar(v, check) ==
    IF v.t = "bigint" THEN
        IF check /\ OutOfSafeRange(v)
        THEN Throw("BIGINT out of safe JS range", v)
        ELSE ToNumber(v)
    ELSE v

\* the first exception thrown while mapping over a sequence, or none
FirstThrow(a) ==
    IF \E k \in 1 .. Len(a) : a[k].t = "throw"
    THEN a[CHOOSE k \in 1 .. Len(a) :
             /\ a[k].t = "throw"
             /\ \A j \in 1 .. k - 1 : a[j].t # "throw"]
    ELSE Null

\* Object.keys(row) in the driver's column order
KeyOrder == <<"affectedRows", "id", "insertId", "name", "v", "warningStatus">>
Keys(f) == SelectSeq(KeyOrder, LAMBDA k : k \in DOMAIN f)

\* function normalizeRow(row)
RECURSIVE normalizeRow(_, _)
normalizeRow(row, check) ==
    IF row.t = "array" THEN
        LET mapped == [k \in 1 .. Len(row.a) |-> normalizeRow(row.a[k], check)]
            thrown == FirstThrow(mapped)
        IN  IF thrown.t = "throw" THEN thrown ELSE Arr(mapped)
    ELSE IF row.t = "object" THEN
        LET ks     == Keys(row.f)
            conv   == [k \in 1 .. Len(ks) |-> convertScalar(row.f[ks[k]], check)]
            thrown == FirstThrow(conv)
        IN  IF thrown.t = "throw" THEN thrown
            ELSE Obj([k \in DOMAIN row.f |-> convertScalar(row.f[k], check)])
    ELSE row

(***************************************************************************)
(* Inputs: the environment, the caller's arguments, the driver's answers   *)
(***************************************************************************)
\* process.env as getConfigFromEnv reads it: is each required setting set,
\* and the boolean flags (=== "true")
Env == [host : BOOLEAN, user : BOOLEAN, password : BOOLEAN,
        allow_insert : BOOLEAN, allow_update : BOOLEAN, allow_delete : BOOLEAN,
        check_number_range : BOOLEAN]

SqlInputs == {"SELECT 1", "SHOW TABLES", "INSERT INTO t VALUES (1)",
              "UPDATE t SET a = 1", "DELETE FROM t", "DROP TABLE t", ""}

\* the optional database argument; "" stands for an omitted argument too
DbInputs == {"", "db"}

\* the statement's leading keyword
LeadingVerb(sql) ==
    CASE sql = "SELECT 1" -> "SELECT"
      [] sql = "SHOW TABLES" -> "SHOW"
      [] sql = "INSERT INTO t VALUES (1)" -> "INSERT"
      [] sql = "UPDATE t SET a = 1" -> "UPDATE"
      [] sql = "DELETE FROM t" -> "DELETE"
      [] sql = "DROP TABLE t" -> "DROP"
      [] OTHER -> ""

\* isAlloowedQuery(sql) of ./validators.js
isAlloowedQuery(sql, e) ==
    LET verb == LeadingVerb(sql)
    IN  \/ verb \in {"SELECT", "SHOW", "DESCRIBE"}
        \/ verb = "INSERT" /\ e.allow_insert
        \/ verb = "UPDATE" /\ e.allow_update
        \/ verb = "DELETE" /\ e.allow_delete

\* the database-switch statement of line 97 (written without its backquotes)
UseStatement(database) == IF database = "db" THEN "USE db" ELSE "USE"

\* scalars the server sends in a column
TwoTo53 == BigInt(FALSE, 2048, 0, 0)
ScalarInputs ==
    { BigInt(FALSE, 0, 0, 7),
      MAX_SAFE,
      BigNeg(MAX_SAFE),
      TwoTo53,
      BigNeg(TwoTo53),
      BigInt(FALSE, 2048, 0, 3),
      BigInt(FALSE, 4194303, LimbBase - 1, LimbBase - 1),
      SmallNum(5),
      Str("x"),
      Null }

\* what the server answers to a statement: a result set of n rows whose
\* column v holds val in every row, or an OK packet with an insert id
RowsResp(n, val) == [kind |-> "rows", n |-> n, val |-> val]
OkResp(val) == [kind |-> "ok", n |-> 0, val |-> val]
NoResp == [kind |-> "none", n |-> 0, val |-> Null]

RowCounts == {0, 1, 3}
LargeRowCounts == {DEFAULT_ROW_LIMIT, DEFAULT_ROW_LIMIT + 1, 1500}

ResponsesFor(sql) ==
    IF LeadingVerb(sql) = "SELECT"
    THEN {RowsResp(n, v) : n \in RowCounts, v \in ScalarInputs}
         \cup {RowsResp(n, SmallNum(5)) : n \in LargeRowCounts}
    ELSE IF LeadingVerb(sql) = "SHOW"
    THEN {RowsResp(n, Str("x")) : n \in RowCounts}
    ELSE {OkResp(v) : v \in {BigInt(FALSE, 0, 0, 7), TwoTo53}}

\* the rows of a result set, in the server's order
ResultSetRows(resp) == [k \in 1 .. resp.n |-> Obj([id |-> SmallNum(k), v |-> resp.val])]
ResultSetMeta == <<Obj([name |-> Str("id")]), Obj([name |-> Str("v")])>>
OkPacket(resp) ==
    Obj([affectedRows |-> SmallNum(1), insertId |-> resp.val, warningStatus |-> SmallNum(0)])

\* what connection.query resolves with: under metaAsArray the driver hands
\* back the pair [rows, meta], otherwise the rows with a `meta` property
QueryResult(resp, metaAsArray) ==
    IF resp.kind = "rows" THEN
        IF metaAsArray
        THEN Arr(<<Arr(ResultSetRows(resp)), Arr(ResultSetMeta)>>)
        ELSE ArrMeta(ResultSetRows(resp), Arr(ResultSetMeta))
    ELSE
        IF metaAsArray
        THEN Arr(<<OkPacket(resp), Arr(<<>>)>>)
        ELSE OkPacket(resp)

(***************************************************************************)
(* State                                                                   *)
(*   env            process.env, fixed when the process starts             *)
(*   pool           the module-level pool reference (a pool id or NULL)    *)
(*   connection     the module-level connection reference (id or NULL)     *)
(*   poolsCreated   how many pools mariadb.createPool has constructed      *)
(*   closed         the pools on which end() has run                       *)
(*   endCalls       per pool, how many times end() was called on it        *)
(*   leased         the connections checked out of their pool              *)
(*   pc, loc        per invocation of executeQuery: where it is suspended, *)
(*                  its arguments, what the driver answered, and whether   *)
(*                  no other invocation has been in flight during it       *)
(*   hist           per invocation: the calls it made, in order            *)
(*   ret            per invocation: what the returned promise settled with *)
(*   lastOp         the outcome of the latest synchronous API call         *)
(*   lastStartFree  the pool's free capacity when the latest executeQuery  *)
(*                  call began                                             *)
(*   normArg,       the argument and the value of normalizeRow when it is  *)
(*   normRet        applied on its own                                     *)
(***************************************************************************)
Ev(op, a, s, ok) == [op |-> op, a |-> a, s |-> s, ok |-> ok]

Result(rows, fields) ==
    [kind |-> "result", rows |-> rows, fields |-> fields, err |-> "", val |-> Null]
Error(msg, v) ==
    [kind |-> "error", rows |-> Null, fields |-> Null, err |-> msg, val |-> v]
Pending == [kind |-> "pending", rows |-> Null, fields |-> Null, err |-> "", val |-> Null]

NoArgs == [sql |-> "", database |-> "", p |-> NULL, resp |-> NoResp, alone |-> TRUE]
NormPending == [t |-> "pending"]
NoOp == [op |-> "none", out |-> "", p |-> NULL, created |-> FALSE, err |-> ""]

\* the physical connections of pool p
ConnsOf(p) == {(p - 1) * connectionLimit + k : k \in 1 .. connectionLimit}

FreeCapacity == connectionLimit - Cardinality(leased)

Init ==
    /\ env \in Env
    /\ pool = NULL
    /\ connection = NULL
    /\ poolsCreated = 0
    /\ closed = {}
    /\ endCalls = [p \in 1 .. MaxPools |-> 0]
    /\ leased = {}
    /\ pc = [i \in Inv |-> "idle"]
    /\ loc = [i \in Inv |-> NoArgs]
    /\ hist = [i \in Inv |-> <<>>]
    /\ ret = [i \in Inv |-> Pending]
    /\ lastOp = NoOp
    /\ lastStartFree = connectionLimit
    /\ normArg = Arr(<<>>)
    /\ normRet = NormPending

(***************************************************************************)
(* getConfigFromEnv, lines 162-165: the message it throws, "" when the     *)
(* configuration is complete                                               *)
(***************************************************************************)
\* the password check left out
getConfigFromEnvNoPassword(e) ==
    IF ~e.host THEN "MARIADB_HOST environment variable is required"
    ELSE IF ~e.user THEN "MARIADB_USER environment variable is required"
    ELSE ""

getConfigFromEnv(e) ==
    IF ~e.host THEN "MARIADB_HOST environment variable is required"
    ELSE IF ~e.user THEN "MARIADB_USER environment variable is required"
    ELSE IF ~e.password THEN "MARIADB_PASSWORD environment variable is required"
    ELSE ""

\* the existing pool is not looked at
PoolExistsNever(p) == FALSE

\* line 46: if (pool)
PoolExists(p) == p # NULL

(***************************************************************************)
(* createConnectionPool, lines 43-68.  ctorOk says whether                 *)
(* mariadb.createPool returns a pool or throws.  The outcome names the     *)
(* pool reference and the pool count the call leaves behind.               *)
(***************************************************************************)
createConnectionPool(p, created, ctorOk) ==
    LET cfgErr == getConfigFromEnv(env)
    IN  IF cfgErr # "" THEN
            [threw |-> TRUE, err |-> cfgErr, pool |-> p, n |-> created, ctor |-> FALSE]
        ELSE IF PoolExists(p) THEN
            [threw |-> FALSE, err |-> "", pool |-> p, n |-> created, ctor |-> FALSE]
        ELSE IF ctorOk THEN
            [threw |-> FALSE, err |-> "", pool |-> created + 1, n |-> created + 1, ctor |-> TRUE]
        ELSE
            [threw |-> TRUE, err |-> "createPool failed", pool |-> p, n |-> created, ctor |-> TRUE]

\* the caller calls createConnectionPool()
CreateConnectionPoolCall(ctorOk) ==
    LET out == createConnectionPool(pool, poolsCreated, ctorOk)
    IN  /\ out.n <= MaxPools
        /\ pool' = out.pool
        /\ poolsCreated' = out.n
        /\ lastOp' = [op |-> "createConnectionPool",
                      out |-> IF out.threw THEN "threw" ELSE "returned",
                      p |-> IF out.threw THEN NULL ELSE out.pool,
                      created |-> out.n > poolsCreated,
                      err |-> out.err]
        /\ UNCHANGED <<env, connection, closed, endCalls, leased, pc, loc, hist, ret,
                       lastStartFree>>

(***************************************************************************)
(* endConnection, lines 194-198.  pool.end() on a pool that was already    *)
(* ended returns a rejected promise.                                       *)
(***************************************************************************)
EndConnectionCall ==
    /\ IF pool # NULL THEN
           /\ endCalls[pool] < MaxEnds
           /\ endCalls' = [endCalls EXCEPT ![pool] = @ + 1]
           /\ closed' = closed \cup {pool}
           /\ lastOp' = [op |-> "endConnection",
                         out |-> IF pool \in closed THEN "rejected" ELSE "ended",
                         p |-> pool, created |-> FALSE,
                         err |-> IF pool \in closed THEN "pool is already closed" ELSE ""]
       ELSE
           /\ lastOp' = [op |-> "endConnection", out |-> "noop", p |-> NULL,
                         created |-> FALSE, err |-> ""]
           /\ UNCHANGED <<endCalls, closed>>
    /\ UNCHANGED <<env, pool, connection, poolsCreated, leased, pc, loc, hist, ret,
                   lastStartFree>>

(***************************************************************************)
(* executeQuery, lines 73-144                                              *)
(***************************************************************************)
\* the reference is cleared without releasing the connection
FinallySkipsRelease(conn, lsd, h) ==
    [connection |-> NULL, leased |-> lsd, hist |-> h]

\* the connection is released but the reference is not cleared
FinallyKeepsReference(conn, lsd, h) ==
    IF conn # NULL
    THEN [connection |-> conn, leased |-> lsd \ {conn},
          hist |-> Append(h, Ev("release", conn, "", TRUE))]
    ELSE [connection |-> conn, leased |-> lsd, hist |-> h]

\* every checked-out connection is released, not the referenced one alone
FinallyReleasesAll(conn, lsd, h) ==
    IF conn # NULL
    THEN [connection |-> NULL, leased |-> {},
          hist |-> Append(h, Ev("release", conn, "", TRUE))]
    ELSE [connection |-> conn, leased |-> {}, hist |-> h]

\* the connection is released a second time
FinallyReleasesTwice(conn, lsd, h) ==
    IF conn # NULL
    THEN [connection |-> NULL, leased |-> lsd \ {conn},
          hist |-> h \o <<Ev("release", conn, "", TRUE), Ev("release", conn, "", TRUE)>>]
    ELSE [connection |-> conn, leased |-> lsd, hist |-> h]

\* lines 136-143: the finally block, run on the reference as it is then;
\* yields the reference, the leases and the call history it leaves
Finally(conn, lsd, h) ==
    IF conn # NULL
    THEN [connection |-> NULL, leased |-> lsd \ {conn},
          hist |-> Append(h, Ev("release", conn, "", TRUE))]
    ELSE [connection |-> conn, leased |-> lsd, hist |-> h]

\* the catch block returns normally instead of rethrowing
CaughtSwallowed(outcome) ==
    IF outcome.kind = "error" THEN Result(Null, Arr(<<>>)) ELSE outcome

\* lines 132-135: what leaves the try block: the returned value, or the
\* error that the catch block logs and rethrows
Caught(outcome) == outcome

\* lines 132-143: return or rethrow through finally, then the promise settles
Settle(i, conn, lsd, h, outcome) ==
    LET fin == Finally(conn, lsd, h)
    IN  /\ connection' = fin.connection
        /\ leased' = fin.leased
        /\ hist' = [hist EXCEPT ![i] = fin.hist]
        /\ pc' = [pc EXCEPT ![i] = "done"]
        /\ ret' = [ret EXCEPT ![i] = Caught(outcome)]

\* the validator's answer is not acted on
QueryRejectedNever(sql) == FALSE

\* line 100: if (!isAlloowedQuery(sql))
QueryRejected(sql) == ~isAlloowedQuery(sql, env)

\* lines 100-112: validate, then send the statement on the held connection
ValidateAndSend(i, sql, conn, lsd, h) ==
    IF QueryRejected(sql) THEN
        Settle(i, conn, lsd, Append(h, Ev("validate", NULL, sql, FALSE)),
               Error("Query not allowed", Null))
    ELSE IF conn = NULL THEN
        \* connection.query on a cleared reference: TypeError
        Settle(i, conn, lsd, Append(h, Ev("validate", NULL, sql, TRUE)),
               Error("TypeError", Null))
    ELSE
        /\ connection' = conn
        /\ leased' = lsd
        /\ hist' = [hist EXCEPT ![i] =
                      h \o <<Ev("validate", NULL, sql, TRUE), Ev("query", conn, sql, TRUE)>>]
        /\ pc' = [pc EXCEPT ![i] = "awaitQuery"]
        /\ ret' = ret

\* the database is switched whether or not one was given
DatabaseGivenAlways(database) == TRUE

\* line 95: if (database)
DatabaseGiven(database) == database # ""

\* lines 94-98: switch the database when one is given
UseDatabase(i, sql, database, conn, lsd, h) ==
    IF DatabaseGiven(database) THEN
        IF conn = NULL THEN
            Settle(i, conn, lsd, h, Error("TypeError", Null))
        ELSE
            /\ connection' = conn
            /\ leased' = lsd
            /\ hist' = [hist EXCEPT ![i] =
                          Append(h, Ev("query", conn, UseStatement(database), TRUE))]
            /\ pc' = [pc EXCEPT ![i] = "awaitUse"]
            /\ ret' = ret
    ELSE ValidateAndSend(i, sql, conn, lsd, h)

InFlight(j) == pc[j] \in {"awaitConn", "awaitUse", "awaitQuery"}

\* the arguments of the call that invocation i starts; the invocations in
\* flight at that moment are no longer alone, and neither is the new one
StartLoc(i, sql, database, p) ==
    [j \in Inv |->
        IF j = i THEN
            [sql |-> sql, database |-> database, p |-> p, resp |-> NoResp,
             alone |-> \A k \in Inv \ {i} : ~InFlight(k)]
        ELSE IF InFlight(j) THEN [loc[j] EXCEPT !.alone = FALSE]
        ELSE loc[j]]

\* lines 78-92: the call up to its first await
ExecuteQueryCall(i, sql, database, ctorOk) ==
    /\ pc[i] = "idle"
    /\ lastStartFree' = FreeCapacity
    /\ lastOp' = NoOp
    /\ UNCHANGED <<env, closed, endCalls>>
    /\ IF pool = NULL THEN
          LET out == createConnectionPool(pool, poolsCreated, ctorOk)
              h   == <<Ev("createPool", out.pool, out.err, ~out.threw)>>
          IN  /\ out.n <= MaxPools
              /\ pool' = out.pool
              /\ poolsCreated' = out.n
              /\ IF out.threw THEN
                    \* thrown before the try block: no catch, no finally
                    /\ pc' = [pc EXCEPT ![i] = "done"]
                    /\ ret' = [ret EXCEPT ![i] = Error(out.err, Null)]
                    /\ hist' = [hist EXCEPT ![i] = h]
                    /\ loc' = StartLoc(i, sql, database, NULL)
                    /\ UNCHANGED <<connection, leased>>
                 ELSE IF connection # NULL THEN
                    /\ loc' = StartLoc(i, sql, database, NULL)
                    /\ UseDatabase(i, sql, database, connection, leased, h)
                 ELSE
                    /\ loc' = StartLoc(i, sql, database, out.pool)
                    /\ hist' = [hist EXCEPT ![i] =
                                  Append(h, Ev("getConnection", out.pool, "", TRUE))]
                    /\ pc' = [pc EXCEPT ![i] = "awaitConn"]
                    /\ UNCHANGED <<connection, leased, ret>>
       ELSE
          /\ UNCHANGED <<pool, poolsCreated>>
          /\ IF connection # NULL THEN
                /\ loc' = StartLoc(i, sql, database, NULL)
                /\ UseDatabase(i, sql, database, connection, leased, <<>>)
             ELSE
                /\ loc' = StartLoc(i, sql, database, pool)
                /\ hist' = [hist EXCEPT ![i] = <<Ev("getConnection", pool, "", TRUE)>>]
                /\ pc' = [pc EXCEPT ![i] = "awaitConn"]
                /\ UNCHANGED <<connection, leased, ret>>

\* line 91 resumes: pool.getConnection() resolved with a free connection
GetConnectionResolves(i, c) ==
    /\ pc[i] = "awaitConn"
    /\ loc[i].p \notin closed
    /\ c \in ConnsOf(loc[i].p) \ leased
    /\ UseDatabase(i, loc[i].sql, loc[i].database, c, leased \cup {c},
                   Append(hist[i], Ev("checkout", c, "", TRUE)))
    /\ UNCHANGED <<env, pool, poolsCreated, closed, endCalls, loc, lastOp, lastStartFree>>

\* line 91 throws: the pool is closed, the wait timed out or connecting failed
GetConnectionRejects(i) ==
    /\ pc[i] = "awaitConn"
    /\ LET msg == IF loc[i].p \in closed THEN "pool is closed" ELSE "getConnection failed"
       IN  Settle(i, connection, leased,
                  Append(hist[i], Ev("getConnectionFailed", loc[i].p, msg, FALSE)),
                  Error(msg, Null))
    /\ UNCHANGED <<env, pool, poolsCreated, closed, endCalls, loc, lastOp, lastStartFree>>

\* line 97 resumes: the USE statement succeeded
UseResolves(i) ==
    /\ pc[i] = "awaitUse"
    /\ ValidateAndSend(i, loc[i].sql, connection, leased, hist[i])
    /\ UNCHANGED <<env, pool, poolsCreated, closed, endCalls, loc, lastOp, lastStartFree>>

\* line 97 throws: the USE statement failed
UseRejects(i) ==
    /\ pc[i] = "awaitUse"
    /\ Settle(i, connection, leased,
              Append(hist[i], Ev("queryFailed", connection, "USE failed", FALSE)),
              Error("USE failed", Null))
    /\ UNCHANGED <<env, pool, poolsCreated, closed, endCalls, loc, lastOp, lastStartFree>>

\* lines 117-121: the row limit
LimitRows(rows) ==
    IF rows.t = "array" /\ Len(rows.a) > DEFAULT_ROW_LIMIT
    THEN Arr(SubSeq(rows.a, 1, DEFAULT_ROW_LIMIT))
    ELSE rows

\* line 115: (result as any)?.meta ?? []
FieldsOf(result) == IF "meta" \in DOMAIN result THEN result.meta ELSE Arr(<<>>)

\* lines 104-132 resume: the statement succeeded with the answer resp
QueryResolves(i, resp) ==
    /\ pc[i] = "awaitQuery"
    /\ resp \in ResponsesFor(loc[i].sql)
    /\ LET result         == QueryResult(resp, TRUE)
           fields         == FieldsOf(result)
           limitedRows    == LimitRows(result)
           normalizedRows == normalizeRow(limitedRows, env.check_number_range)
       IN  Settle(i, connection, leased, hist[i],
                  IF normalizedRows.t = "throw"
                  THEN Error(normalizedRows.msg, normalizedRows.v)
                  ELSE Result(normalizedRows, fields))
    /\ loc' = [loc EXCEPT ![i].resp = resp]
    /\ UNCHANGED <<env, pool, poolsCreated, closed, endCalls, lastOp, lastStartFree>>

\* lines 104-112 throw: the statement failed or ran into its timeout
QueryRejects(i, msg) ==
    /\ pc[i] = "awaitQuery"
    /\ Settle(i, connection, leased,
              Append(hist[i], Ev("queryFailed", connection, msg, FALSE)),
              Error(msg, Null))
    /\ UNCHANGED <<env, pool, poolsCreated, closed, endCalls, loc, lastOp, lastStartFree>>

\* the caller has taken the result or the error of a settled call
Return(i) ==
    /\ pc[i] = "done"
    /\ pc' = [pc EXCEPT ![i] = "idle"]
    /\ loc' = [loc EXCEPT ![i] = NoArgs]
    /\ hist' = [hist EXCEPT ![i] = <<>>]
    /\ ret' = [ret EXCEPT ![i] = Pending]
    /\ UNCHANGED <<env, pool, connection, poolsCreated, closed, endCalls, leased, lastOp,
                   lastStartFree>>

(***************************************************************************)
(* One call at a time: the caller starts a call only when no executeQuery  *)
(* is in flight and the previous result has been taken.                    *)
(***************************************************************************)
NoneInFlight == \A j \in Inv : pc[j] = "idle"

\* the invocation slot a new call takes: the lowest one not in use
FreeSlot == CHOOSE i \in Inv : pc[i] = "idle" /\ \A j \in 1 .. i - 1 : pc[j] # "idle"

StartQuery ==
    /\ NoneInFlight
    /\ UNCHANGED normVars
    /\ \E sql \in SqlInputs, database \in DbInputs, ctorOk \in BOOLEAN :
          ExecuteQueryCall(FreeSlot, sql, database, ctorOk)

CreatePool ==
    /\ NoneInFlight
    /\ UNCHANGED normVars
    /\ \E ctorOk \in BOOLEAN : CreateConnectionPoolCall(ctorOk)

Shutdown == NoneInFlight /\ UNCHANGED normVars /\ EndConnectionCall

ConnResolved ==
    /\ UNCHANGED normVars
    /\ \E i \in Inv : \E c \in 1 .. MaxPools * connectionLimit : GetConnectionResolves(i, c)

ConnRejected == UNCHANGED normVars /\ \E i \in Inv : GetConnectionRejects(i)

UseResolved == UNCHANGED normVars /\ \E i \in Inv : UseResolves(i)

UseRejected == UNCHANGED normVars /\ \E i \in Inv : UseRejects(i)

QueryResolved ==
    /\ UNCHANGED normVars
    /\ \E i \in Inv : \E resp \in ResponsesFor(loc[i].sql) : QueryResolves(i, resp)

QueryFailed ==
    /\ UNCHANGED normVars
    /\ \E i \in Inv, msg \in {"query failed", "query timeout"} : QueryRejects(i, msg)

Returned == UNCHANGED normVars /\ \E i \in Inv : Return(i)

Next ==
    \/ StartQuery
    \/ CreatePool
    \/ Shutdown
    \/ ConnResolved
    \/ ConnRejected
    \/ UseResolved
    \/ UseRejected
    \/ QueryResolved
    \/ QueryFailed
    \/ Returned

Spec == Init /\ [][Next]_vars

(***************************************************************************)
(* Properties                                                              *)
(***************************************************************************)
EventsOf(i, op) == {k \in 1 .. Len(hist[i]) : hist[i][k].op = op}

Releases(i, c) == {k \in EventsOf(i, "release") : hist[i][k].a = c}

Min(a, b) == IF a < b THEN a ELSE b

ConfigIncomplete == ~env.host \/ ~env.user \/ ~env.password

RECURSIVE HasBigint(_)
HasBigint(x) ==
    IF x.t = "array" THEN \E k \in 1 .. Len(x.a) : HasBigint(x.a[k])
    ELSE IF x.t = "object" THEN \E k \in DOMAIN x.f : HasBigint(x.f[k])
    ELSE x.t = "bigint"

RECURSIVE HasNumber(_, _, _)
HasNumber(x, exact, v) ==
    IF x.t = "array" THEN \E k \in 1 .. Len(x.a) : HasNumber(x.a[k], exact, v)
    ELSE IF x.t = "object" THEN \E k \in DOMAIN x.f : HasNumber(x.f[k], exact, v)
    ELSE /\ x.t = "number"
         /\ x.neg = v.neg
         /\ IF exact THEN x.l2 = v.l2 /\ x.l1 = v.l1 /\ x.l0 = v.l0
            ELSE x.l2 >= 2048

\* C1: with one call at a time, when an executeQuery call has settled (with a
\* result or with any error) as many connections are checked out as before the
\* call, and every connection the call checked out was released exactly once.
C1_NoLeak ==
    \A i \in Inv :
        pc[i] = "done" =>
            /\ FreeCapacity = lastStartFree
            /\ \A k \in EventsOf(i, "checkout") :
                  /\ Cardinality(Releases(i, hist[i][k].a)) = 1
                  /\ hist[i][k].a \notin leased

C1_Witness ==
    \E i \in Inv :
        /\ pc[i] = "done"
        /\ ret[i].err = "BIGINT out of safe JS range"
        /\ EventsOf(i, "checkout") # {}

\* C2: when the validator rejects the statement, the call fails having checked
\* out no connection and issued no statement, the USE statement included.
C2_RejectionTouchesNoConnection ==
    \A i \in Inv :
        (\E k \in EventsOf(i, "validate") : ~hist[i][k].ok) =>
            /\ EventsOf(i, "getConnection") = {}
            /\ EventsOf(i, "checkout") = {}
            /\ EventsOf(i, "query") = {}

\* C3: the caller's statement is sent only after the validator accepted it, and
\* a rejected statement ends the call in an error without ever being sent.
C3_OnlyValidatedSqlRuns ==
    \A i \in Inv :
        /\ \A k \in EventsOf(i, "query") :
              hist[i][k].s = loc[i].sql =>
                  /\ isAlloowedQuery(loc[i].sql, env)
                  /\ \E j \in 1 .. k - 1 :
                        /\ hist[i][j].op = "validate"
                        /\ hist[i][j].s = loc[i].sql
                        /\ hist[i][j].ok
        /\ ~isAlloowedQuery(loc[i].sql, env) /\ pc[i] = "done" =>
              /\ ret[i].kind = "error"
              /\ \A k \in EventsOf(i, "query") : hist[i][k].s # loc[i].sql

C3_Witness ==
    \E i \in Inv :
        /\ pc[i] = "done"
        /\ ret[i].kind = "result"
        /\ LeadingVerb(loc[i].sql) = "DELETE"
        /\ \E k \in EventsOf(i, "query") : hist[i][k].s = loc[i].sql

\* C4: at most one pool is ever constructed; while a pool exists no step
\* replaces it or constructs another, and createConnectionPool returns it.
C4_PoolCreatedOnce ==
    [][ /\ poolsCreated' <= 1
        /\ pool # NULL => pool' = pool /\ poolsCreated' = poolsCreated
        /\ CreatePool /\ pool # NULL =>
              /\ lastOp'.out = "returned"
              /\ lastOp'.p = pool
              /\ ~lastOp'.created ]_vars

C4_Witness ==
    /\ lastOp.op = "createConnectionPool"
    /\ lastOp.out = "returned"
    /\ ~lastOp.created
    /\ lastOp.p = pool
    /\ poolsCreated = 1

\* C5: executeQuery never asks a pool that endConnection has closed for a
\* connection; after a shutdown it constructs a fresh pool first.
C5_NoAcquireFromClosedPool ==
    \A i \in Inv :
        \A k \in EventsOf(i, "getConnection") : hist[i][k].a \notin closed

\* C6: endConnection without a pool changes nothing and raises no error, and
\* repeated endConnection calls end the pool once and raise no error.
C6_ShutdownIdempotent ==
    [][ Shutdown =>
          /\ lastOp'.out # "rejected"
          /\ pool = NULL => UNCHANGED <<pool, connection, poolsCreated, closed, endCalls, leased>>
          /\ pool # NULL /\ pool \in closed => UNCHANGED <<pool, closed, endCalls>> ]_vars

\* C7: a call that returns a result for a result set of n rows returns exactly
\* the first min(n, 1000) rows, in their order.
C7_RowCap ==
    \A i \in Inv :
        pc[i] = "done" /\ ret[i].kind = "result" /\ loc[i].resp.kind = "rows" =>
            /\ ret[i].rows.t = "array"
            /\ Len(ret[i].rows.a) = Min(loc[i].resp.n, DEFAULT_ROW_LIMIT)
            /\ \A k \in 1 .. Len(ret[i].rows.a) :
                  /\ ret[i].rows.a[k].t = "object"
                  /\ ret[i].rows.a[k].f.id = SmallNum(k)

\* C8: a 64-bit integer in the answer whose magnitude exceeds 2^53 - 1 fails the
\* call with an error naming the value when the range check is on; otherwise,
\* and for every magnitude up to 2^53 - 1, the value comes back as a number
\* (the same integer when it is within the limit) and the call does not fail.
C8_RangeSafety ==
    \A i \in Inv :
        LET resp == loc[i].resp
            v    == resp.val
        IN  (/\ pc[i] = "done"
             /\ resp.kind = "ok" \/ (resp.kind = "rows" /\ resp.n >= 1)
             /\ v.t = "bigint")
            => IF env.check_number_range /\ MagGT(v, MAX_SAFE)
               THEN /\ ret[i].kind = "error"
                    /\ ret[i].err = "BIGINT out of safe JS range"
                    /\ ret[i].val = v
               ELSE /\ ret[i].kind = "result"
                    /\ ~HasBigint(ret[i].rows)
                    /\ HasNumber(ret[i].rows, ~MagGT(v, MAX_SAFE), v)

C8_Witness ==
    \E i \in Inv :
        /\ pc[i] = "done"
        /\ env.check_number_range
        /\ loc[i].resp.kind = "rows"
        /\ loc[i].resp.val = TwoTo53
        /\ ret[i].kind = "error"
        /\ ret[i].val = TwoTo53

\* C9: when a required setting is missing or the pool constructor throws, the
\* call fails at once: no pool is installed, no connection is asked for and no
\* statement is sent; a call made while no pool is installed starts by
\* attempting the construction.
C9_FailedSetupLeavesNothing ==
    /\ ConfigIncomplete =>
          /\ pool = NULL /\ poolsCreated = 0 /\ leased = {} /\ connection = NULL
          /\ lastOp.op = "createConnectionPool" => lastOp.out = "threw"
          /\ \A i \in Inv : pc[i] \in {"idle", "done"}
    /\ lastOp.op = "createConnectionPool" /\ lastOp.out = "threw" => pool = NULL
    /\ \A i \in Inv :
          /\ Len(hist[i]) >= 1 /\ hist[i][1].op = "createPool" /\ ~hist[i][1].ok =>
                /\ pc[i] = "done"
                /\ ret[i].kind = "error"
                /\ ret[i].err = hist[i][1].s
                /\ Len(hist[i]) = 1
                /\ pool = NULL /\ leased = {} /\ connection = NULL
          /\ Len(hist[i]) >= 1 /\ poolsCreated = 0 =>
                hist[i][1].op = "createPool" /\ ~hist[i][1].ok

C9_Witness ==
    \E i \in Inv :
        /\ pc[i] = "done"
        /\ ret[i].err = "MARIADB_PASSWORD environment variable is required"
        /\ pool = NULL

\* C10: when a call's result or error is observable, every connection it
\* checked out has already been released, so whenever the next call can begin
\* the pool's free capacity is at least what it was when the previous began.
C10_ReleaseBeforeReturn ==
    /\ \A i \in Inv :
          pc[i] = "done" =>
              /\ connection = NULL
              /\ \A k \in EventsOf(i, "checkout") :
                    \E j \in k + 1 .. Len(hist[i]) :
                        hist[i][j].op = "release" /\ hist[i][j].a = hist[i][k].a
              /\ FreeCapacity >= lastStartFree
    /\ NoneInFlight => FreeCapacity >= lastStartFree

C10_Witness ==
    \E i \in Inv :
        /\ pc[i] = "done"
        /\ ret[i].kind = "result"
        /\ EventsOf(i, "checkout") # {}
        /\ EventsOf(i, "release") # {}

\* C11: with one call at a time, at most one connection is checked out in
\* every state, and one is checked out exactly when the module-level
\* connection reference is set, which then names that connection.
C11_SingleLease ==
    /\ Cardinality(leased) <= 1
    /\ Cardinality(leased) = 1 <=> connection # NULL
    /\ connection # NULL => leased = {connection}

C11_Witness ==
    \E i \in Inv :
        /\ pc[i] = "awaitQuery"
        /\ connection # NULL
        /\ leased = {connection}

\* C14: with one call at a time the connection reference is empty whenever no
\* call is in flight; a call never runs a statement on a connection it did not
\* check out itself, asks the pool exactly once when the pool setup succeeded,
\* and has checked out exactly one connection unless a stage up to the
\* checkout failed.
C14_FreshCheckoutPerCall ==
    /\ (\A i \in Inv : ~InFlight(i)) => connection = NULL
    /\ \A i \in Inv :
          /\ Cardinality(EventsOf(i, "checkout")) <= 1
          /\ \A k \in EventsOf(i, "query") :
                \E j \in 1 .. k - 1 :
                    hist[i][j].op = "checkout" /\ hist[i][j].a = hist[i][k].a
          /\ Len(hist[i]) >= 1 /\ hist[i][1].ok =>
                Cardinality(EventsOf(i, "getConnection")) = 1
          /\ pc[i] \in {"awaitUse", "awaitQuery"} \/
             (pc[i] = "done" /\ hist[i][1].ok /\ EventsOf(i, "getConnectionFailed") = {}) =>
                Cardinality(EventsOf(i, "checkout")) = 1

C14_Witness ==
    \E i \in Inv :
        /\ pc[i] = "done"
        /\ hist[i][1].op = "getConnection"
        /\ Cardinality(EventsOf(i, "checkout")) = 1
        /\ connection = NULL

\* the stages of a call that failed, and whether normalizing the answer fails
Failures(i) == {k \in 1 .. Len(hist[i]) : ~hist[i][k].ok}

NormalizationFails(i) ==
    LET resp == loc[i].resp
    IN  /\ resp.kind = "ok" \/ (resp.kind = "rows" /\ resp.n >= 1)
        /\ resp.val.t = "bigint"
        /\ env.check_number_range
        /\ MagGT(resp.val, MAX_SAFE)

\* the statements of a call: the database switch and the caller's statement
UseEvents(i) == {k \in EventsOf(i, "query") : hist[i][k].s # loc[i].sql}
MainEvents(i) == {k \in EventsOf(i, "query") : hist[i][k].s = loc[i].sql}

\* C16: a settled call holds a result exactly when no stage failed: the pool
\* setup, the checkout, the database switch, the validation, the statement and
\* the normalization; otherwise it holds the error of the stage that failed.
C16_NoFailureSwallowed ==
    \A i \in Inv :
        pc[i] = "done" =>
            /\ ret[i].kind \in {"result", "error"}
            /\ ret[i].kind = "result" <=> Failures(i) = {} /\ ~NormalizationFails(i)
            /\ ret[i].kind = "result" =>
                  /\ EventsOf(i, "checkout") # {}
                  /\ \E k \in EventsOf(i, "validate") : hist[i][k].ok
                  /\ MainEvents(i) # {}
                  /\ loc[i].database # "" => UseEvents(i) # {}
                  /\ loc[i].resp.kind # "none"
            /\ ret[i].kind = "error" =>
                  IF Failures(i) # {}
                  THEN \A k \in Failures(i) :
                          ret[i].err = IF hist[i][k].op = "validate"
                                       THEN "Query not allowed" ELSE hist[i][k].s
                  ELSE /\ ret[i].err = "BIGINT out of safe JS range"
                       /\ ret[i].val = loc[i].resp.val

C16_Witness ==
    \E i \in Inv :
        /\ pc[i] = "done"
        /\ ret[i].kind = "error"
        /\ ret[i].err = "query timeout"
        /\ MainEvents(i) # {}

\* C17: once a call holds a connection, the database switch has been issued
\* exactly when a database was given; it is issued on the connection the call
\* checked out, the caller's statement follows it on that same connection, and
\* when the switch fails the caller's statement is never sent and the
\* connection is released.
C17_DatabaseSwitch ==
    \A i \in Inv :
        /\ EventsOf(i, "checkout") # {} => (UseEvents(i) # {} <=> loc[i].database # "")
        /\ Cardinality(UseEvents(i)) <= 1
        /\ \A u \in UseEvents(i) :
              /\ hist[i][u].s = UseStatement(loc[i].database)
              /\ \E j \in 1 .. u - 1 :
                    hist[i][j].op = "checkout" /\ hist[i][j].a = hist[i][u].a
              /\ \A m \in MainEvents(i) : u < m /\ hist[i][m].a = hist[i][u].a
              /\ u < Len(hist[i]) /\ hist[i][u + 1].op = "queryFailed" =>
                    /\ MainEvents(i) = {}
                    /\ pc[i] = "done"
                    /\ ret[i].kind = "error"
                    /\ Cardinality(Releases(i, hist[i][u].a)) = 1
                    /\ hist[i][u].a \notin leased
        /\ MainEvents(i) # {} /\ loc[i].database # "" => UseEvents(i) # {}

C17_Witness ==
    \E i \in Inv :
        /\ pc[i] = "done"
        /\ ret[i].err = "USE failed"
        /\ UseEvents(i) # {}
        /\ MainEvents(i) = {}
        /\ EventsOf(i, "release") # {}

(***************************************************************************)
(* normalizeRow applied on its own to results of every row shape: rows     *)
(* that are field-keyed records, rows that are ordered sequences of        *)
(* scalars, and arrays of such rows nested as batch results are.           *)
(***************************************************************************)
RecordRow(s) == Obj([id |-> SmallNum(1), v |-> s])
SequenceRow(s) == Arr(<<SmallNum(1), s>>)

NormInputs ==
    UNION { { RecordRow(s),
              Arr(<<RecordRow(s)>>),
              Arr(<<RecordRow(Str("x")), RecordRow(s)>>),
              Arr(<<Arr(<<RecordRow(s)>>), Arr(<<>>)>>),
              SequenceRow(s),
              Arr(<<SequenceRow(s)>>),
              Arr(<<Arr(<<SequenceRow(s)>>), Arr(<<>>)>>) } : s \in ScalarInputs }

InitNorm ==
    /\ env \in {e \in Env : /\ e.host /\ e.user /\ e.password
                            /\ ~e.allow_insert /\ ~e.allow_update /\ ~e.allow_delete}
    /\ pool = NULL
    /\ connection = NULL
    /\ poolsCreated = 0
    /\ closed = {}
    /\ endCalls = [p \in 1 .. MaxPools |-> 0]
    /\ leased = {}
    /\ pc = [i \in Inv |-> "idle"]
    /\ loc = [i \in Inv |-> NoArgs]
    /\ hist = [i \in Inv |-> <<>>]
    /\ ret = [i \in Inv |-> Pending]
    /\ lastOp = NoOp
    /\ lastStartFree = connectionLimit
    /\ normArg \in NormInputs
    /\ normRet = NormPending

\* normalizeRow(normArg)
NormalizeRowCall ==
    /\ normRet = NormPending
    /\ normRet' = normalizeRow(normArg, env.check_number_range)
    /\ UNCHANGED <<env, pool, connection, poolsCreated, closed, endCalls, leased,
                   pc, loc, hist, ret, lastOp, lastStartFree, normArg>>

NextNorm == NormalizeRowCall

SpecNorm == InitNorm /\ [][NextNorm]_vars

RECURSIVE HasUnsafeBigint(_)
HasUnsafeBigint(x) ==
    IF x.t = "array" THEN \E k \in 1 .. Len(x.a) : HasUnsafeBigint(x.a[k])
    ELSE IF x.t = "object" THEN \E k \in DOMAIN x.f : HasUnsafeBigint(x.f[k])
    ELSE x.t = "bigint" /\ MagGT(x, MAX_SAFE)

\* the output has the shape of the input and every scalar that is not a
\* 64-bit integer is the one of the input
RECURSIVE OthersUnchanged(_, _)
OthersUnchanged(x, y) ==
    IF x.t = "array" THEN
        /\ y.t = "array"
        /\ Len(y.a) = Len(x.a)
        /\ \A k \in 1 .. Len(x.a) : OthersUnchanged(x.a[k], y.a[k])
    ELSE IF x.t = "object" THEN
        /\ y.t = "object"
        /\ DOMAIN y.f = DOMAIN x.f
        /\ \A k \in DOMAIN x.f : OthersUnchanged(x.f[k], y.f[k])
    ELSE IF x.t = "bigint" THEN TRUE
    ELSE y.t = x.t /\ y = x

\* C15: for rows that are records or sequences of scalars, nested in arrays to
\* any depth, normalizeRow either fails under the range check on an integer
\* beyond the safe range, or returns a value without any 64-bit integer in
\* which every other scalar is unchanged.
C15_NormalizationComplete ==
    normRet # NormPending =>
        IF normRet.t = "throw"
        THEN env.check_number_range /\ HasUnsafeBigint(normArg)
        ELSE /\ ~HasBigint(normRet)
             /\ OthersUnchanged(normArg, normRet)

(***************************************************************************)
(* The driver settles every operation it is given: a pending               *)
(* getConnection, USE or statement is eventually resolved or rejected.     *)
(***************************************************************************)
SpecLive ==
    /\ Spec
    /\ WF_vars(ConnResolved \/ ConnRejected)
    /\ WF_vars(UseResolved \/ UseRejected)
    /\ WF_vars(QueryResolved \/ QueryFailed)

\* C18: with one call at a time and a driver that settles every operation,
\* every call in flight eventually settles, with a result or an error, and is
\* settled only with its connection released; whenever a call waits for a
\* connection of an open pool the whole capacity of the pool is free.
C18_EveryRequestTerminates ==
    /\ \A i \in Inv : InFlight(i) ~> (pc[i] = "done" /\ ret[i].kind \in {"result", "error"})
    /\ [](\A i \in Inv : pc[i] = "done" => leased = {} /\ connection = NULL)
    /\ [](\A i \in Inv : pc[i] = "awaitConn" => leased = {})
    /\ [](NoneInFlight => FreeCapacity = connectionLimit)

C18_Witness ==
    \E i \in Inv :
        /\ pc[i] = "done"
        /\ ret[i].kind = "result"
        /\ EventsOf(i, "release") # {}
        /\ leased = {}
        /\ lastStartFree = connectionLimit

(***************************************************************************)
(* Concurrent calls: the caller starts executeQuery while other calls are  *)
(* suspended at an await.  The calls share the module's pool and           *)
(* connection reference (lines 15-16).                                     *)
(***************************************************************************)
ConcSql == {"SHOW TABLES", "DROP TABLE t"}

\* the two calls whose interleavings are explored
TwoCalls == {1, 2}

InitConc ==
    /\ Init
    /\ env.host /\ env.user /\ env.password
    /\ ~env.allow_insert /\ ~env.allow_update /\ ~env.allow_delete
    /\ ~env.check_number_range

StartConcurrent ==
    /\ UNCHANGED normVars
    /\ \E i \in TwoCalls, sql \in ConcSql, database \in DbInputs, ctorOk \in BOOLEAN :
          ExecuteQueryCall(i, sql, database, ctorOk)

NextConc ==
    \/ StartConcurrent
    \/ ConnResolved
    \/ ConnRejected
    \/ UseResolved
    \/ UseRejected
    \/ QueryResolved
    \/ QueryFailed
    \/ Returned

SpecConc == InitConc /\ [][NextConc]_vars

\* the connection of the statement invocation i is waiting for
CurrentConn(i) == hist[i][Len(hist[i])].a

\* C12: without the one-at-a-time precondition a connection leaks: when a
\* checkout overwrites the shared reference the connection it referred to
\* stays checked out, and a checked-out connection that the shared reference
\* does not refer to is never released and never referred to again.
C12_OverwrittenLeaseLeaks ==
    [][ /\ connection # NULL /\ connection' # NULL /\ connection' # connection =>
              connection \in leased'
        /\ \A c \in leased : c # connection => c \in leased' /\ connection' # c ]_vars

C12_Witness ==
    /\ \A i \in Inv : pc[i] = "done" /\ EventsOf(i, "checkout") # {}
    /\ connection = NULL
    /\ \E c \in leased :
          /\ \E i \in Inv : \E k \in EventsOf(i, "checkout") : hist[i][k].a = c
          /\ \A i \in Inv : Releases(i, c) = {}

\* C13: under every interleaving of two calls, while a call waits for a
\* statement it sent, the shared reference still refers to the connection the
\* statement was sent on and that connection is still checked out; and no call
\* sends a statement through a cleared reference.
C13_ExclusiveLease ==
    \A i \in Inv :
        /\ pc[i] \in {"awaitUse", "awaitQuery"} =>
              /\ connection = CurrentConn(i)
              /\ CurrentConn(i) \in leased
        /\ ret[i].err # "TypeError"

====
